---- MODULE Spec2Model ----
(***************************************************************************)
(* A model of pyan's command-line driver (pyan/main.py) and of its graph   *)
(* markup writers (pyan/writers.py).                                        *)
(*                                                                          *)
(* The specifications share the variables:                                 *)
(*   Spec      Writer.run of a TgfWriter, DotWriter or YedWriter on a       *)
(*             presentation graph drawn from a bounded family;              *)
(*   SpecApi   the library pipeline: filter calls on the GraphModel, the    *)
(*             VisualGraph assembly, then a Writer run;                     *)
(*   SpecMain  main(): the flags, the optional filter, the assembly and the *)
(*             writer dispatch of _write_graph;                             *)
(*   SpecAdapter  the run of an SVGWriter or HTMLWriter (DotAdapter) and    *)
(*             the delivery of the converted text on close.                 *)
(* analyzer.py and visgraph.py are not part of the sources: GraphModel and  *)
(* the assembler are modelled from the specification's sections 4.3, 4.4.   *)
(***************************************************************************)
EXTENDS Integers, Sequences, FiniteSets, TLC

VARIABLES
    pc,            \* position of the modelled program
    graph,         \* the presentation graph: group index -> [nodes, subgraphs, edges]
    writer,        \* the Writer subclass that runs: "tgf", "dot", "yed" ("" when none)
    stack,         \* the write_subgraph recursion: frames [g, ni, si]
    ei,            \* index of the next edge of the write_edges loop
    out,           \* lines written to outstream, in order
    indent_level,  \* Writer.indent_level
    i,             \* TgfWriter.i
    id_map,        \* TgfWriter.id_map
    edge_id,       \* YedWriter.edge_id
    edges_read,    \* groups whose .edges attribute was read, in order
    error,         \* the exception that ended the program ("" when none)
    reg_edges,     \* GraphModel: the Edge records
    visible,       \* GraphModel: the Nodes whose visibility flag is set
    last_filter,   \* the arguments of the latest filter call
    cli_args,      \* main: the command line
    args,          \* main: the namespace parse_args returned
    graph_options, \* main: the options handed to VisualGraph.from_visitor
    ran,           \* main: the writer class whose run() _write_graph called
    adapter,       \* the DotAdapter subclass that runs: "SVGWriter", "HTMLWriter" ("" when none)
    converted_output, \* DotAdapter.converted_output: the output the caller supplied
    stdout,        \* the texts written to sys.stdout by DotAdapter.close, in order
    stringio,      \* the texts written to the caller's StringIO, in order
    files          \* the files DotAdapter.close has written: records [path, text]

wvars == <<writer, stack, ei, out, indent_level, i, id_map, edge_id, edges_read>>
mvars == <<reg_edges, visible, last_filter>>
avars == <<cli_args, args, graph_options, ran>>
dvars == <<adapter, converted_output, stdout, stringio, files>>
vars == <<pc, graph, error, wvars, mvars, avars, dvars>>

\* Bound of the family of presentation graphs: groups + nodes + edges.
MaxSize == 4

\* Bound of the analyzed graphs: the number of Edge records.
MaxRegEdges == 2

Flavors == {"uses", "defines"}
WriterKinds == {"tgf", "dot", "yed"}

(***************************************************************************)
(* The presentation graph handed to a Writer.                               *)
(***************************************************************************)
Edge(s, t, f) == [source |-> s, target |-> t, flavor |-> f]

RECURSIVE SortedSeq(_)
SortedSeq(S) ==
    IF S = {} THEN <<>>
    ELSE LET m == CHOOSE x \in S : \A y \in S : x <= y
         IN <<m>> \o SortedSeq(S \ {m})

RECURSIVE IsUnder(_, _, _)
IsUnder(parent, c, k) ==
    IF c = k THEN TRUE
    ELSE IF c = 0 THEN FALSE
    ELSE IsUnder(parent, parent[c], k)

EdgeIn(e, S) == e.source \in S /\ e.target \in S

BuildGraph(g, parent, n, place, es) ==
    [k \in 0..g |->
        [nodes |-> SortedSeq({x \in 1..n : place[x] = k}),
         subgraphs |-> SortedSeq({c \in 1..g : parent[c] = k}),
         edges |-> IF k = 0 THEN es
                   ELSE SelectSeq(es, LAMBDA e :
                            EdgeIn(e, {x \in 1..n : IsUnder(parent, place[x], k)}))]]

EmptyGraph == [k \in {0} |-> [nodes |-> <<>>, subgraphs |-> <<>>, edges |-> <<>>]]

Groups(G) == DOMAIN G \ {0}
AllNodes(G) == UNION {{G[k].nodes[x] : x \in DOMAIN G[k].nodes} : k \in DOMAIN G}

(***************************************************************************)
(* Writer: write, indent, dedent.  A handler is a list of instructions.     *)
(***************************************************************************)
\* A line of output: cls is "open" (the line opens a block of kind tag), "close"
\* (it closes one) or "leaf"; txt names the statement, a, b, c, m are the values
\* formatted into it.
W3(cls, tag, txt, a, b, c, m) ==
    [op |-> "write", n |-> 0, cls |-> cls, tag |-> tag, txt |-> txt,
     a |-> a, b |-> b, c |-> c, m |-> m]
W(cls, tag, txt, a, b, m) == W3(cls, tag, txt, a, b, 0, m)
indent(level) ==
    [op |-> "indent", n |-> level, cls |-> "", tag |-> "", txt |-> "",
     a |-> 0, b |-> 0, c |-> 0, m |-> ""]
dedent(level) ==
    [op |-> "dedent", n |-> level, cls |-> "", tag |-> "", txt |-> "",
     a |-> 0, b |-> 0, c |-> 0, m |-> ""]

\* The line lands in outstream behind tabstop * indent_level.
write(ins, level) ==
    [ind |-> level, cls |-> ins.cls, tag |-> ins.tag, txt |-> ins.txt,
     a |-> ins.a, b |-> ins.b, c |-> ins.c, m |-> ins.m]

RECURSIVE Exec(_, _, _)
Exec(instrs, level, lines) ==
    IF instrs = <<>> THEN [level |-> level, lines |-> lines]
    ELSE LET ins == Head(instrs)
         IN CASE ins.op = "indent" -> Exec(Tail(instrs), level + ins.n, lines)
              [] ins.op = "dedent" -> Exec(Tail(instrs), level - ins.n, lines)
              [] OTHER -> Exec(Tail(instrs), level, Append(lines, write(ins, level)))

(***************************************************************************)
(* TgfWriter                                                                *)
(***************************************************************************)
TgfWriter_start_graph == <<>>
TgfWriter_start_subgraph(g) == <<>>
\* Mutant: self.i is incremented before the line is written.
TgfWriter_write_node_late(node, num) == <<W("leaf", "", "node", num + 1, node, "")>>
TgfWriter_write_node(node, num) == <<W("leaf", "", "node", num, node, "")>>
\* self.id_map[node] = self.i
TgfWriter_id_map_swapped(ids, node, num) == (num :> node) @@ ids
TgfWriter_id_map(ids, node, num) == (node :> num) @@ ids
\* Mutant: start_edges writes nothing.
TgfWriter_start_edges_silent == <<>>
TgfWriter_start_edges == <<W("leaf", "", "#", 0, 0, "")>>
\* Mutant: the test is made on the other flavor.
TgfWriter_flavor_swapped(edge) == IF edge.flavor = "defines" THEN "U" ELSE "D"
TgfWriter_flavor(edge) == IF edge.flavor = "uses" THEN "U" ELSE "D"
TgfWriter_write_edge(edge, ids) ==
    <<W("leaf", "", "edge", ids[edge.source], ids[edge.target], TgfWriter_flavor(edge))>>
TgfWriter_finish_edges == <<>>
TgfWriter_finish_subgraph(g) == <<>>
TgfWriter_finish_graph == <<>>

(***************************************************************************)
(* DotWriter                                                                *)
(***************************************************************************)
DotWriter_start_graph ==
    << W("open", "{", "digraph", 0, 0, ""),
       W("leaf", "", "graph_options", 0, 0, ""),
       indent(1) >>
DotWriter_start_subgraph(g) ==
    << W("open", "{", "cluster", g, 0, ""),
       indent(1),
       W("leaf", "", "cluster_style", g, 0, "") >>
DotWriter_write_node(node) == <<W("leaf", "", "node", node, node, "")>>
DotWriter_start_edges == <<>>
DotWriter_write_edge(edge) ==
    IF edge.flavor = "defines"
    THEN <<W("leaf", "", "edge", edge.source, edge.target, "dashed")>>
    ELSE <<W("leaf", "", "edge", edge.source, edge.target, "solid")>>
DotWriter_finish_edges == <<>>
\* Mutant: the subgraph's closing brace is not written.
DotWriter_finish_subgraph_open(g) == <<dedent(1)>>
DotWriter_finish_subgraph(g) == <<dedent(1), W("close", "{", "}", 0, 0, "")>>
DotWriter_finish_graph == <<W("close", "{", "}", 0, 0, "")>>

(***************************************************************************)
(* YedWriter                                                                *)
(***************************************************************************)
YedWriter_start_graph ==
    << W("leaf", "", "<?xml?>", 0, 0, ""),
       W("open", "graphml", "<graphml>", 0, 0, ""),
       indent(1),
       W("leaf", "", "<key d0/>", 0, 0, ""),
       W("leaf", "", "<key d1/>", 0, 0, ""),
       W("open", "graph", "<graph Graph>", 0, 0, ""),
       indent(1) >>
YedWriter_start_subgraph(g) ==
    << W("open", "node", "<node group>", g, 0, ""),
       indent(1),
       W("open", "data", "<data d0>", 0, 0, ""),
       indent(1),
       W("open", "y:ProxyAutoBoundsNode", "<y:ProxyAutoBoundsNode>", 0, 0, ""),
       indent(1),
       W("open", "y:Realizers", "<y:Realizers>", 0, 0, ""),
       indent(1),
       W("open", "y:GroupNode", "<y:GroupNode>", 0, 0, ""),
       indent(1),
       W("leaf", "", "<y:Fill/>", 0, 0, ""),
       W("leaf", "", "<y:NodeLabel>", g, 0, ""),
       W("leaf", "", "<y:Shape/>", 0, 0, ""),
       dedent(1),
       W("close", "y:GroupNode", "</y:GroupNode>", 0, 0, ""),
       dedent(1),
       W("close", "y:Realizers", "</y:Realizers>", 0, 0, ""),
       dedent(1),
       W("close", "y:ProxyAutoBoundsNode", "</y:ProxyAutoBoundsNode>", 0, 0, ""),
       dedent(1),
       W("close", "data", "</data>", 0, 0, ""),
       W("open", "graph", "<graph>", g, 0, ""),
       indent(1) >>
YedWriter_write_node(node) ==
    << W("open", "node", "<node>", node, 0, ""),
       indent(1),
       W("open", "data", "<data d0>", 0, 0, ""),
       indent(1),
       W("open", "y:ShapeNode", "<y:ShapeNode>", 0, 0, ""),
       indent(1),
       W("leaf", "", "<y:Geometry/>", node, 0, ""),
       W("leaf", "", "<y:Fill/>", node, 0, ""),
       W("leaf", "", "<y:BorderStyle/>", 0, 0, ""),
       W("leaf", "", "<y:NodeLabel>", node, 0, ""),
       W("leaf", "", "<y:Shape/>", 0, 0, ""),
       dedent(1),
       W("close", "y:ShapeNode", "</y:ShapeNode>", 0, 0, ""),
       dedent(1),
       W("close", "data", "</data>", 0, 0, ""),
       dedent(1),
       W("close", "node", "</node>", 0, 0, "") >>
YedWriter_start_edges == <<>>
YedWriter_write_edge(edge, eid) ==
    << W3("open", "edge", "<edge>", edge.source, edge.target, eid, ""),
       indent(1),
       W("open", "data", "<data d1>", 0, 0, ""),
       indent(1),
       W("open", "y:PolyLineEdge", "<y:PolyLineEdge>", 0, 0, ""),
       indent(1),
       IF edge.flavor = "defines"
       THEN W("leaf", "", "<y:LineStyle/>", 0, 0, "dashed")
       ELSE W("leaf", "", "<y:LineStyle/>", 0, 0, "line"),
       W("leaf", "", "<y:Arrows/>", 0, 0, ""),
       W("leaf", "", "<y:BendStyle/>", 0, 0, ""),
       dedent(1),
       W("close", "y:PolyLineEdge", "</y:PolyLineEdge>", 0, 0, ""),
       dedent(1),
       W("close", "data", "</data>", 0, 0, ""),
       dedent(1),
       W("close", "edge", "</edge>", 0, 0, "") >>
YedWriter_finish_edges == <<>>
YedWriter_finish_subgraph(g) ==
    << dedent(1),
       W("close", "graph", "</graph>", 0, 0, ""),
       dedent(1),
       W("close", "node", "</node>", 0, 0, "") >>
\* Mutant: the document element is not closed.
YedWriter_finish_graph_open ==
    << dedent(2),
       W("close", "graph", "</graph>", 0, 0, ""),
       dedent(1) >>
YedWriter_finish_graph ==
    << dedent(2),
       W("close", "graph", "</graph>", 0, 0, ""),
       dedent(1),
       W("close", "graphml", "</graphml>", 0, 0, "") >>

(***************************************************************************)
(* The abstract methods of Writer, dispatched on the subclass.              *)
(***************************************************************************)
start_graph(w) ==
    CASE w = "tgf" -> TgfWriter_start_graph
      [] w = "dot" -> DotWriter_start_graph
      [] OTHER -> YedWriter_start_graph
start_subgraph(w, g) ==
    CASE w = "tgf" -> TgfWriter_start_subgraph(g)
      [] w = "dot" -> DotWriter_start_subgraph(g)
      [] OTHER -> YedWriter_start_subgraph(g)
write_node(w, node, num) ==
    CASE w = "tgf" -> TgfWriter_write_node(node, num)
      [] w = "dot" -> DotWriter_write_node(node)
      [] OTHER -> YedWriter_write_node(node)
start_edges(w) ==
    CASE w = "tgf" -> TgfWriter_start_edges
      [] w = "dot" -> DotWriter_start_edges
      [] OTHER -> YedWriter_start_edges
write_edge(w, edge, ids, eid) ==
    CASE w = "tgf" -> TgfWriter_write_edge(edge, ids)
      [] w = "dot" -> DotWriter_write_edge(edge)
      [] OTHER -> YedWriter_write_edge(edge, eid)
finish_edges(w) ==
    CASE w = "tgf" -> TgfWriter_finish_edges
      [] w = "dot" -> DotWriter_finish_edges
      [] OTHER -> YedWriter_finish_edges
finish_subgraph(w, g) ==
    CASE w = "tgf" -> TgfWriter_finish_subgraph(g)
      [] w = "dot" -> DotWriter_finish_subgraph(g)
      [] OTHER -> YedWriter_finish_subgraph(g)
finish_graph(w) ==
    CASE w = "tgf" -> TgfWriter_finish_graph
      [] w = "dot" -> DotWriter_finish_graph
      [] OTHER -> YedWriter_finish_graph

(***************************************************************************)
(* Writer.run: open, start_graph, write_subgraph(self.graph), write_edges,  *)
(* finish_graph, close.                                                     *)
(***************************************************************************)
Frame(g) == [g |-> g, ni |-> 1, si |-> 1]
Top == stack[Len(stack)]
Pop(st) == SubSeq(st, 1, Len(st) - 1)

Emit(instrs) ==
    LET r == Exec(instrs, indent_level, out)
    IN /\ indent_level' = r.level
       /\ out' = r.lines

Open ==
    /\ pc = "run"
    /\ pc' = "start_graph"
    /\ UNCHANGED <<dvars, graph, error, wvars, mvars, avars>>

StartGraph ==
    /\ pc = "start_graph"
    /\ Emit(start_graph(writer))
    /\ pc' = "write_subgraph"
    /\ UNCHANGED <<dvars, graph, error, writer, stack, ei, i, id_map, edge_id, edges_read,
                   mvars, avars>>

\* write_subgraph(graph) is entered: from run with self.graph, or from the loop
\* over graph.subgraphs of the enclosing call.  start_subgraph is its first step.
NextSubgraph ==
    IF stack = <<>> THEN 0 ELSE graph[Top.g].subgraphs[Top.si]
CanWriteSubgraph ==
    /\ pc = "write_subgraph"
    /\ \/ stack = <<>>
       \/ /\ stack # <<>>
          /\ Top.ni > Len(graph[Top.g].nodes)
          /\ Top.si <= Len(graph[Top.g].subgraphs)
WriteSubgraph ==
    /\ CanWriteSubgraph
    /\ Emit(start_subgraph(writer, NextSubgraph))
    /\ stack' = IF stack = <<>> THEN <<Frame(0)>>
                ELSE Append([stack EXCEPT ![Len(stack)].si = @ + 1], Frame(NextSubgraph))
    /\ UNCHANGED <<dvars, pc, graph, error, writer, ei, i, id_map, edge_id, edges_read,
                   mvars, avars>>

CanWriteNode ==
    /\ pc = "write_subgraph"
    /\ stack # <<>>
    /\ Top.ni <= Len(graph[Top.g].nodes)
WriteNode ==
    /\ CanWriteNode
    /\ LET node == graph[Top.g].nodes[Top.ni]
       IN /\ Emit(write_node(writer, node, i))
          /\ IF writer = "tgf"
             THEN /\ id_map' = TgfWriter_id_map(id_map, node, i)
                  /\ i' = i + 1
             ELSE UNCHANGED <<i, id_map>>
    /\ stack' = [stack EXCEPT ![Len(stack)].ni = @ + 1]
    /\ UNCHANGED <<dvars, pc, graph, error, writer, ei, edge_id, edges_read, mvars, avars>>

CanFinishSubgraph ==
    /\ pc = "write_subgraph"
    /\ stack # <<>>
    /\ Top.ni > Len(graph[Top.g].nodes)
    /\ Top.si > Len(graph[Top.g].subgraphs)
FinishSubgraph ==
    /\ CanFinishSubgraph
    /\ Emit(finish_subgraph(writer, Top.g))
    /\ stack' = Pop(stack)
    /\ pc' = IF Len(stack) = 1 THEN "write_edges" ELSE pc
    /\ UNCHANGED <<dvars, graph, error, writer, ei, i, id_map, edge_id, edges_read,
                   mvars, avars>>

\* write_edges: start_edges, then the loop over self.graph.edges.
StartEdges ==
    /\ pc = "write_edges"
    /\ Emit(start_edges(writer))
    /\ edges_read' = Append(edges_read, 0)
    /\ ei' = 1
    /\ pc' = "edge_loop"
    /\ UNCHANGED <<dvars, graph, error, writer, stack, i, id_map, edge_id, mvars, avars>>

KeyError(edge) ==
    writer = "tgf" /\ ~ (edge.source \in DOMAIN id_map /\ edge.target \in DOMAIN id_map)

CanWriteEdge ==
    /\ pc = "edge_loop"
    /\ ei <= Len(graph[0].edges)
WriteEdge ==
    /\ CanWriteEdge
    /\ LET edge == graph[0].edges[ei]
           eid == IF writer = "yed" THEN edge_id + 1 ELSE edge_id
       IN IF KeyError(edge)
          THEN /\ error' = "KeyError"
               /\ pc' = "raised"
               /\ UNCHANGED <<ei, out, indent_level, edge_id>>
          ELSE /\ Emit(write_edge(writer, edge, id_map, eid))
               /\ edge_id' = eid
               /\ ei' = ei + 1
               /\ UNCHANGED <<pc, error>>
    /\ UNCHANGED <<dvars, graph, writer, stack, i, id_map, edges_read, mvars, avars>>

CanFinishEdges ==
    /\ pc = "edge_loop"
    /\ ei > Len(graph[0].edges)
FinishEdges ==
    /\ CanFinishEdges
    /\ Emit(finish_edges(writer))
    /\ pc' = "finish_graph"
    /\ UNCHANGED <<dvars, graph, error, writer, stack, ei, i, id_map, edge_id, edges_read,
                   mvars, avars>>

FinishGraph ==
    /\ pc = "finish_graph"
    /\ Emit(finish_graph(writer))
    /\ pc' = "close"
    /\ UNCHANGED <<dvars, graph, error, writer, stack, ei, i, id_map, edge_id, edges_read,
                   mvars, avars>>

Close ==
    /\ pc = "close"
    /\ pc' = "done"
    /\ UNCHANGED <<dvars, graph, error, wvars, mvars, avars>>

Run ==
    \/ Open
    \/ StartGraph
    \/ WriteSubgraph
    \/ WriteNode
    \/ FinishSubgraph
    \/ StartEdges
    \/ WriteEdge
    \/ FinishEdges
    \/ FinishGraph
    \/ Close


(***************************************************************************)
(* GraphModel (specification 3 and 4.3): the Node registry, the Edge        *)
(* records and the visibility flags.  Three Nodes, a.f, a.sub.g and b.h.    *)
(***************************************************************************)
RegNodes == {1, 2, 3}
NodeNamespace(n) ==
    CASE n = 1 -> <<"a">>
      [] n = 2 -> <<"a", "sub">>
      [] OTHER -> <<"b">>
NodeName(n) ==
    CASE n = 1 -> "f"
      [] n = 2 -> "g"
      [] OTHER -> "h"
\* The Node create_node constructs when the registry has no match.
Placeholder == 0

\* The Edge records an analysis may produce between distinct Nodes (an edge of a
\* Node to itself connects nothing new; MainEdges holds one).
CandidateEdges ==
    {e \in {Edge(s, t, f) : s \in RegNodes, t \in RegNodes, f \in Flavors} :
        e.source # e.target}

\* defines edges form a forest: a Node has at most one incoming defines edge,
\* and none defines a Node that defines it.
DefinesForest(E) ==
    \A d, e \in {x \in E : x.flavor = "defines"} :
        /\ d.target = e.target => d = e
        /\ ~ (d.source = e.target /\ d.target = e.source)

IsPrefix(p, q) == Len(p) <= Len(q) /\ SubSeq(q, 1, Len(p)) = p

create_node(namespace, name) ==
    IF \E n \in RegNodes : NodeNamespace(n) = namespace /\ NodeName(n) = name
    THEN CHOOSE n \in RegNodes : NodeNamespace(n) = namespace /\ NodeName(n) = name
    ELSE Placeholder

\* Mutant: the edges are followed from source to target only.
Neighbours_directed(x) == {e.target : e \in {d \in reg_edges : d.source = x}}
\* The Nodes one defines/uses edge away from x, in either direction.
Neighbours(x) ==
    {e.target : e \in {d \in reg_edges : d.source = x}}
        \union {e.source : e \in {d \in reg_edges : d.target = x}}

RECURSIVE Reach(_)
Reach(S) ==
    LET T == S \union UNION {Neighbours(x) : x \in S}
    IN IF T = S THEN S ELSE Reach(T)

\* The arguments of a filter call: node and namespace, each possibly None.
FilterArgs(has_node, node, has_namespace, namespace) ==
    [given |-> TRUE, has_node |-> has_node, node |-> node,
     has_namespace |-> has_namespace, namespace |-> namespace]
NoFilter ==
    [given |-> FALSE, has_node |-> FALSE, node |-> Placeholder,
     has_namespace |-> FALSE, namespace |-> <<>>]

\* Mutant: only the Nodes still visible are considered.
filter_pruned(a) ==
    {n \in visible :
        /\ a.has_node => n \in Reach({a.node})
        /\ a.has_namespace => IsPrefix(a.namespace, NodeNamespace(n))}
\* filter(node, namespace): the visibility flag of every Node, recomputed.
filter(a) ==
    {n \in RegNodes :
        /\ a.has_node => n \in Reach({a.node})
        /\ a.has_namespace => IsPrefix(a.namespace, NodeNamespace(n))}

VisibleEdges == {e \in reg_edges : e.source \in visible /\ e.target \in visible}

(***************************************************************************)
(* VisualGraph.from_visitor (specification 4.4): the presentation graph of  *)
(* the visible Nodes and Edges.  Group k stands for GroupNamespaces[k].     *)
(***************************************************************************)
GroupNamespaces == << <<"a">>, <<"a", "sub">>, <<"b">> >>

Options(dd, du, co, ga, gr, ne, an) ==
    [draw_defines |-> dd, draw_uses |-> du, colored |-> co, grouped_alt |-> ga,
     grouped |-> gr, nested_groups |-> ne, annotated |-> an]
NoOptions == Options(FALSE, FALSE, FALSE, FALSE, FALSE, FALSE, FALSE)

EdgeBefore(d, e) ==
    \/ d.source < e.source
    \/ d.source = e.source /\ d.target < e.target
    \/ d.source = e.source /\ d.target = e.target /\ d.flavor = "defines" /\ e.flavor = "uses"

RECURSIVE EdgeSeq(_)
EdgeSeq(S) ==
    IF S = {} THEN <<>>
    ELSE LET m == CHOOSE x \in S : \A y \in S \ {x} : EdgeBefore(x, y)
         IN <<m>> \o EdgeSeq(S \ {m})

\* draw_defines and draw_uses filter the edges; grouped_alt keeps the defines
\* edges as (invisible) layout hints when draw_defines is off.
DrawnEdges(opts) ==
    {e \in VisibleEdges :
        \/ e.flavor = "uses" /\ opts.draw_uses
        \/ e.flavor = "defines" /\ (opts.draw_defines \/ opts.grouped_alt)}

\* The Group a Node is listed in: none (0, the top level) when not grouped, its
\* top-level namespace when grouped, its own namespace under nested_groups.
GroupOf(opts, n) ==
    IF ~ opts.grouped THEN 0
    ELSE LET ns == IF opts.nested_groups THEN NodeNamespace(n)
                   ELSE SubSeq(NodeNamespace(n), 1, 1)
         IN CHOOSE k \in DOMAIN GroupNamespaces : GroupNamespaces[k] = ns

GroupSet(opts) ==
    IF ~ opts.grouped THEN {}
    ELSE {k \in DOMAIN GroupNamespaces :
            /\ opts.nested_groups \/ Len(GroupNamespaces[k]) = 1
            /\ \E n \in visible : IsPrefix(GroupNamespaces[k], NodeNamespace(n))}

ParentGroup(k) ==
    IF Len(GroupNamespaces[k]) = 1 THEN 0
    ELSE CHOOSE p \in DOMAIN GroupNamespaces :
            GroupNamespaces[p] = SubSeq(GroupNamespaces[k], 1, Len(GroupNamespaces[k]) - 1)

from_visitor(opts) ==
    [k \in {0} \union GroupSet(opts) |->
        [nodes |-> SortedSeq({n \in visible : GroupOf(opts, n) = k}),
         subgraphs |-> SortedSeq({c \in GroupSet(opts) : ParentGroup(c) = k}),
         edges |-> IF k = 0 THEN EdgeSeq(DrawnEdges(opts)) ELSE <<>>]]

(***************************************************************************)
(* The library pipeline: filter calls, from_visitor, a Writer, run.         *)
(***************************************************************************)
\* The filter calls of the model: a Node of the registry or a placeholder, or
\* None; the namespace a, which holds a.f and a.sub.g, or zz, which holds
\* nothing, or None.
FilterInputs ==
    {a \in {FilterArgs(hn, n, hs, ns) :
                hn \in BOOLEAN, n \in RegNodes \union {Placeholder},
                hs \in BOOLEAN, ns \in {<<"a">>, <<"zz">>}} :
        /\ ~ a.has_node => a.node = Placeholder
        /\ ~ a.has_namespace => a.namespace = <<"a">>}

ApiOptions ==
    {Options(TRUE, TRUE, FALSE, FALSE, gr, ne, FALSE) : gr \in BOOLEAN, ne \in BOOLEAN}

\* The client has called filter never ("analyzed"), once ("filtered") or more
\* often ("refiltered").
Filter ==
    /\ pc \in {"analyzed", "filtered", "refiltered"}
    /\ pc' = IF pc = "analyzed" THEN "filtered" ELSE "refiltered"
    /\ \E a \in FilterInputs :
          /\ visible' = filter(a)
          /\ last_filter' = a
    /\ UNCHANGED <<dvars, graph, error, reg_edges, wvars, avars>>

FromVisitor ==
    /\ pc \in {"analyzed", "filtered", "refiltered"}
    /\ \E opts \in ApiOptions :
          /\ opts.nested_groups => opts.grouped
          /\ graph_options' = opts
          /\ graph' = from_visitor(opts)
    /\ pc' = "writer"
    /\ UNCHANGED <<dvars, error, wvars, mvars, cli_args, args, ran>>

NewWriter ==
    /\ pc = "writer"
    /\ writer' \in WriterKinds
    /\ pc' = "run"
    /\ UNCHANGED <<dvars, graph, error, stack, ei, out, indent_level, i, id_map, edge_id,
                   edges_read, mvars, avars>>

(***************************************************************************)
(* main.py                                                                  *)
(***************************************************************************)
ALLOWED_FORMATS == {"dot", "html", "tgf", "yed"}
DOT_FORMATS ==
    {"bmp", "cgimage", "canon", "dot", "gv", "xdot", "xdot1.2", "xdot1.4",
     "eps", "exr", "fig", "gd", "gd2", "gif", "gtk", "ico", "imap", "imap_np",
     "ismap", "cmap", "cmapx", "cmapx_np", "jpg", "jpeg", "jpe", "jp2", "json", "json0",
     "dot_json", "xdot_json", "pdf", "pic", "pct", "pict", "plain", "plain-ext", "png",
     "pov", "ps", "ps2", "psd", "sgi", "svg", "svgz", "tga", "tif", "tiff", "tk",
     "vml", "vmlz", "vrml", "wbmp", "webp", "xlib", "x11"}

\* A string option of the parser: None (given = FALSE) or a dotted name, kept as
\* the sequence of its segments; the empty string is the empty sequence.
None == [given |-> FALSE, path |-> <<>>]
Str(path) == [given |-> TRUE, path |-> path]
\* Python's truth value of an option: None and "" are false.
Truthy(opt) == opt.given /\ opt.path # <<>>

\* The command lines of the model.  The parser's choices admit no format
\* outside ALLOWED_FORMATS and DOT_FORMATS.
FunctionInputs == {None, Str(<<>>), Str(<<"a", "f">>), Str(<<"a", "sub", "g">>), Str(<<"zz", "q">>)}
NamespaceInputs == {None, Str(<<>>), Str(<<"a">>), Str(<<"zz">>)}
FormatInputs == {"dot", "html", "tgf", "yed", "png", "svg"}

NoCommandLine ==
    [function |-> None, namespace |-> None, format |-> "", opts |-> NoOptions]

\* The analyzed graph of main's run: a.f uses a.sub.g, a.sub.g uses itself.
MainEdges == {Edge(1, 2, "uses"), Edge(2, 2, "uses")}

\* Mutant: nested_groups leaves grouped alone.
ImpliedGrouped_skipped(a) == a
\* main: if args.nested_groups: args.grouped = True
ImpliedGrouped(a) ==
    IF a.opts.nested_groups THEN [a EXCEPT !.opts.grouped = TRUE] ELSE a

\* main: args = parser.parse_args(cli_args)
ParseArgs ==
    /\ pc = "main"
    /\ args' = cli_args
    /\ pc' = "nested_groups"
    /\ UNCHANGED <<dvars, graph, error, wvars, mvars, cli_args, graph_options, ran>>

ImplyGrouped ==
    /\ pc = "nested_groups"
    /\ args' = ImpliedGrouped(args)
    /\ pc' = "graph_options"
    /\ UNCHANGED <<dvars, graph, error, wvars, mvars, cli_args, graph_options, ran>>

_get_graph_options(a) ==
    [draw_defines |-> a.opts.draw_defines,
     draw_uses |-> a.opts.draw_uses,
     colored |-> a.opts.colored,
     grouped_alt |-> a.opts.grouped_alt,
     grouped |-> a.opts.grouped,
     nested_groups |-> a.opts.nested_groups,
     annotated |-> a.opts.annotated]

GetGraphOptions ==
    /\ pc = "graph_options"
    /\ graph_options' = _get_graph_options(args)
    /\ pc' = "filter"
    /\ UNCHANGED <<dvars, graph, error, wvars, mvars, cli_args, args, ran>>

\* main: function_name, namespace = the last segment of args.function and the
\* rest; node = visitor.create_node(namespace, function_name), or None.
MainFilterArgs(a) ==
    LET fn == a.function.path
        node == IF Truthy(a.function)
                THEN create_node(SubSeq(fn, 1, Len(fn) - 1), fn[Len(fn)])
                ELSE Placeholder
    IN FilterArgs(Truthy(a.function), node, a.namespace.given, a.namespace.path)

MainFilter ==
    /\ pc = "filter"
    /\ IF Truthy(args.function) \/ Truthy(args.namespace)
       THEN /\ visible' = filter(MainFilterArgs(args))
            /\ last_filter' = MainFilterArgs(args)
       ELSE UNCHANGED <<visible, last_filter>>
    /\ pc' = "from_visitor"
    /\ UNCHANGED <<dvars, graph, error, wvars, reg_edges, avars>>

MainFromVisitor ==
    /\ pc = "from_visitor"
    /\ graph' = from_visitor(graph_options)
    /\ pc' = "write_graph"
    /\ UNCHANGED <<dvars, error, wvars, mvars, avars>>

\* _write_graph compares the builtin function `format`, not args.format, with
\* the format names.
format == "<built-in function format>"

WriterClass(a) ==
    IF format = "dot" THEN "DotWriter"
    ELSE IF format = "html" THEN "HTMLWriter"
    ELSE IF format = "tgf" THEN "TgfWriter"
    ELSE IF format = "yed" THEN "YedWriter"
    ELSE "DotConverter"

UnknownFormat(a) == a.format \notin (ALLOWED_FORMATS \union DOT_FORMATS)

_write_graph ==
    /\ pc = "write_graph"
    /\ IF UnknownFormat(args)
       THEN /\ error' = "ValueError"
            /\ pc' = "raised"
            /\ UNCHANGED ran
       ELSE /\ ran' = WriterClass(args)
            /\ pc' = "written"
            /\ UNCHANGED error
    /\ UNCHANGED <<dvars, graph, wvars, mvars, cli_args, args, graph_options>>

(***************************************************************************)
(* DotAdapter: a DotWriter that writes into a StringIO of its own and, on   *)
(* close, converts the DOT text and delivers the result.                    *)
(***************************************************************************)
\* A Python str: the text of the given format made of the given DOT lines.
\* The empty string is Text("", <<>>).
Text(fmt, lines) == [fmt |-> fmt, lines |-> lines]

\* The output argument of a writer: None, a StringIO, or a path (str or Path).
Output(kind, path) == [kind |-> kind, path |-> path]
NoOutput == Output("None", Text("", <<>>))
OutputPath == Text("path", <<>>)
Outputs == {NoOutput, Output("StringIO", Text("", <<>>)), Output("path", OutputPath)}
Adapters == {"SVGWriter", "HTMLWriter"}

\* SVGWriter.convert: the standard output of `dot -Tsvg` fed with the stream's
\* value; the empty string when dot produced nothing (ok = FALSE).
SVGWriter_convert(stream, ok) == IF ok THEN Text("svg", stream) ELSE Text("", <<>>)
\* HTMLWriter.convert: the callgraph.html template rendered around that SVG.
HTMLWriter_convert(stream, ok) == Text("html", SVGWriter_convert(stream, ok).lines)
convert(cls, stream, ok) ==
    IF cls = "HTMLWriter" THEN HTMLWriter_convert(stream, ok) ELSE SVGWriter_convert(stream, ok)

\* open(converted, "w"): the name of the file opened is the converted text.
\* The empty name always fails; any other name succeeds or fails with the
\* file system (the directories it names, the length of the name).
DotAdapter_close ==
    /\ pc = "close"
    /\ adapter # ""
    /\ \E ok \in BOOLEAN :
          LET converted == convert(adapter, out, ok)
          IN CASE converted_output.kind = "None" ->
                    /\ stdout' = Append(stdout, converted)
                    /\ pc' = "done"
                    /\ UNCHANGED <<stringio, files, error>>
               [] converted_output.kind = "StringIO" ->
                    /\ stringio' = Append(stringio, converted)
                    /\ pc' = "done"
                    /\ UNCHANGED <<stdout, files, error>>
               [] OTHER ->
                    \/ /\ converted # Text("", <<>>)
                       /\ files' = files \union {[path |-> converted, text |-> converted]}
                       /\ pc' = "done"
                       /\ UNCHANGED <<stdout, stringio, error>>
                    \/ /\ error' = "OSError"
                       /\ pc' = "raised"
                       /\ UNCHANGED <<stdout, stringio, files>>
    /\ UNCHANGED <<graph, wvars, mvars, avars, adapter, converted_output>>

(***************************************************************************)
(* The specifications.                                                      *)
(***************************************************************************)
\* No DotAdapter takes part in the run.
NoAdapter ==
    /\ adapter = ""
    /\ converted_output = NoOutput
    /\ stdout = <<>>
    /\ stringio = <<>>
    /\ files = {}

WriterInit ==
    /\ stack = <<>>
    /\ ei = 1
    /\ out = <<>>
    /\ indent_level = 0
    /\ i = 1
    /\ id_map = <<>>
    /\ edge_id = 0
    /\ edges_read = <<>>

\* Spec: a Writer is constructed on a presentation graph and run.
Init ==
    /\ \E g \in 0..MaxSize : \E n \in 0..(MaxSize - g) : \E e \in 0..(MaxSize - g - n) :
         \E parent \in [1..g -> 0..MaxSize] :
           \E place \in [1..n -> 0..g] :
             \E es \in [1..e -> {Edge(s, t, f) : s \in 1..n, t \in 1..n, f \in Flavors}] :
                /\ \A c \in 1..g : parent[c] < c
                /\ graph = BuildGraph(g, parent, n, place, es)
    /\ writer \in WriterKinds
    /\ pc = "run"
    /\ error = ""
    /\ WriterInit
    /\ reg_edges = {}
    /\ visible = {}
    /\ last_filter = NoFilter
    /\ cli_args = NoCommandLine
    /\ args = NoCommandLine
    /\ graph_options = NoOptions
    /\ ran = ""
    /\ NoAdapter

Next == Run

Spec == Init /\ [][Next]_vars

\* SpecApi: the analyzed graph is filtered, assembled and written.
InitApi ==
    /\ reg_edges \in {S \in SUBSET CandidateEdges : Cardinality(S) <= MaxRegEdges}
    /\ DefinesForest(reg_edges)
    /\ visible = RegNodes
    /\ last_filter = NoFilter
    /\ graph = EmptyGraph
    /\ writer = ""
    /\ pc = "analyzed"
    /\ error = ""
    /\ WriterInit
    /\ cli_args = NoCommandLine
    /\ args = NoCommandLine
    /\ graph_options = NoOptions
    /\ ran = ""
    /\ NoAdapter

NextApi == Filter \/ FromVisitor \/ NewWriter \/ Run

SpecApi == InitApi /\ [][NextApi]_vars

\* SpecMain: main() on a command line.
InitMain ==
    /\ args = NoCommandLine
    /\ cli_args \in [function : FunctionInputs, namespace : NamespaceInputs,
                 format : FormatInputs,
                 opts : {Options(dd, du, co, ga, gr, ne, an) :
                            dd \in BOOLEAN, du \in BOOLEAN, co \in BOOLEAN, ga \in BOOLEAN,
                            gr \in BOOLEAN, ne \in BOOLEAN, an \in BOOLEAN}]
    /\ reg_edges = MainEdges
    /\ visible = RegNodes
    /\ last_filter = NoFilter
    /\ graph = EmptyGraph
    /\ writer = ""
    /\ pc = "main"
    /\ error = ""
    /\ WriterInit
    /\ graph_options = NoOptions
    /\ ran = ""
    /\ NoAdapter

NextMain == ParseArgs \/ ImplyGrouped \/ GetGraphOptions \/ MainFilter \/ MainFromVisitor \/ _write_graph

SpecMain == InitMain /\ [][NextMain]_vars

\* SpecAdapter: an SVGWriter or HTMLWriter is constructed on a presentation
\* graph with the caller's output, and run.
InitAdapter ==
    /\ \E g \in 0..MaxSize : \E n \in 0..(MaxSize - g) : \E e \in 0..(MaxSize - g - n) :
         \E parent \in [1..g -> 0..MaxSize] :
           \E place \in [1..n -> 0..g] :
             \E es \in [1..e -> {Edge(s, t, f) : s \in 1..n, t \in 1..n, f \in Flavors}] :
                /\ \A c \in 1..g : parent[c] < c
                /\ graph = BuildGraph(g, parent, n, place, es)
    /\ writer = "dot"
    /\ adapter \in Adapters
    /\ converted_output \in Outputs
    /\ stdout = <<>>
    /\ stringio = <<>>
    /\ files = {}
    /\ pc = "run"
    /\ error = ""
    /\ WriterInit
    /\ reg_edges = {}
    /\ visible = {}
    /\ last_filter = NoFilter
    /\ cli_args = NoCommandLine
    /\ args = NoCommandLine
    /\ graph_options = NoOptions
    /\ ran = ""

NextAdapter ==
    \/ Open
    \/ StartGraph
    \/ WriteSubgraph
    \/ WriteNode
    \/ FinishSubgraph
    \/ StartEdges
    \/ WriteEdge
    \/ FinishEdges
    \/ FinishGraph
    \/ DotAdapter_close

SpecAdapter == InitAdapter /\ [][NextAdapter]_vars

(***************************************************************************)
(* Properties of a Writer run.                                              *)
(***************************************************************************)
\* The run has left write_subgraph(self.graph): the node section is complete.
NodesWritten == pc \in {"write_edges", "edge_loop", "finish_graph", "close", "done"}

IsNodeLine(l) == l.txt \in {"node", "<node>"}
IsEdgeLine(l) == l.txt \in {"edge", "<edge>"}
IsSeparator(l) == l.txt = "#"
NodeLines == SelectSeq(out, IsNodeLine)
EdgeLines == SelectSeq(out, IsEdgeLine)
Positions(P(_)) == {p \in DOMAIN out : P(out[p])}

RECURSIVE NodeCount(_, _)
NodeCount(G, S) ==
    IF S = {} THEN 0
    ELSE LET k == CHOOSE x \in S : TRUE
         IN Len(G[k].nodes) + NodeCount(G, S \ {k})

\* The group whose .subgraphs lists c (0 for the top-level graph).
ParentOf(G, c) == CHOOSE k \in DOMAIN G : \E x \in DOMAIN G[k].subgraphs : G[k].subgraphs[x] = c
IsNested(G) == \E c \in Groups(G) : ParentOf(G, c) # 0

\* C1: a TgfWriter run emits exactly one node line per node of .nodes of the
\* top-level graph and of every nested subgraph, and the ids on the node lines
\* are 1, 2, ..., N in the order the lines are emitted.
C1_TgfNodeIds ==
    writer = "tgf" =>
        /\ \A k \in DOMAIN NodeLines : NodeLines[k].a = k
        /\ \A k \in DOMAIN NodeLines : NodeLines[k].b \in AllNodes(graph)
        /\ \A k, j \in DOMAIN NodeLines : NodeLines[k].b = NodeLines[j].b => k = j
        /\ NodesWritten =>
              /\ Len(NodeLines) = NodeCount(graph, DOMAIN graph)
              /\ \A n \in AllNodes(graph) :
                    Cardinality({k \in DOMAIN NodeLines : NodeLines[k].b = n}) = 1

\* A TGF run is over on a graph with a Group inside a Group and nodes listed at
\* two levels, the first node emitted not being node 1.
C1_Witness ==
    /\ writer = "tgf"
    /\ pc = "done"
    /\ IsNested(graph)
    /\ Len(NodeLines) >= 2
    /\ \E c \in Groups(graph) : ParentOf(graph, c) # 0 /\ graph[c].nodes # <<>>
    /\ \E k \in DOMAIN NodeLines : NodeLines[k].b # k

\* C2: the node lines of every nesting level come before the edge section; the
\* TGF separator # is written exactly once, after the last node line and before
\* the first edge line; each edge of the top-level .edges is written exactly
\* once, in order; the .edges of a nested subgraph is never read.
C2_Ordering ==
    /\ \A p \in Positions(IsNodeLine) :
          \A q \in Positions(IsSeparator) \union Positions(IsEdgeLine) : p < q
    /\ \A q \in Positions(IsSeparator) : \A p \in Positions(IsEdgeLine) : q < p
    /\ Cardinality(Positions(IsSeparator)) <= 1
    /\ (writer = "tgf" /\ pc \in {"edge_loop", "finish_graph", "close", "done"}) =>
          /\ Cardinality(Positions(IsSeparator)) = 1
          /\ \A q \in Positions(IsSeparator) : q = NodeCount(graph, DOMAIN graph) + 1
    /\ Len(EdgeLines) <= Len(graph[0].edges)
    /\ pc \in {"finish_graph", "close", "done"} => Len(EdgeLines) = Len(graph[0].edges)
    /\ writer # "tgf" =>
          \A k \in DOMAIN EdgeLines :
              /\ EdgeLines[k].a = graph[0].edges[k].source
              /\ EdgeLines[k].b = graph[0].edges[k].target
    /\ \A k \in DOMAIN edges_read : edges_read[k] = 0
    /\ Len(edges_read) <= 1

\* A TGF run is over: a node of a nested subgraph, the separator, two edges.
C2_Witness ==
    /\ writer = "tgf"
    /\ pc = "done"
    /\ \E c \in Groups(graph) : graph[c].nodes # <<>> /\ graph[c].edges # <<>>
    /\ Len(EdgeLines) = 2
    /\ Positions(IsSeparator) # {}

\* The id the node section gave to node n.
EmittedId(n) == (CHOOSE k \in DOMAIN NodeLines : NodeLines[k].b = n)

\* C3: an edge line of TgfWriter carries U iff the edge's flavor is uses, D iff
\* it is defines, and its two ids are those of the edge's source and target.
C3_TgfEdgeLines ==
    writer = "tgf" =>
        \A k \in DOMAIN EdgeLines :
            LET e == graph[0].edges[k]
                l == EdgeLines[k]
            IN /\ l.m \in {"U", "D"}
               /\ l.m = "U" <=> e.flavor = "uses"
               /\ l.m = "D" <=> e.flavor = "defines"
               /\ l.a = EmittedId(e.source)
               /\ l.b = EmittedId(e.target)

\* A TGF run is over with the line of a defines edge between two nodes, the
\* source's id differing from the number the graph knows the node by.
C3_Witness ==
    /\ writer = "tgf"
    /\ pc = "done"
    /\ \E k \in DOMAIN EdgeLines :
          /\ EdgeLines[k].m = "D"
          /\ EdgeLines[k].a # EdgeLines[k].b
          /\ EdgeLines[k].a # graph[0].edges[k].source

(***************************************************************************)
(* Blocks of the output: a line of class "open" starts a block that the     *)
(* matching line of class "close" ends.                                     *)
(***************************************************************************)
\* Whether the lines are well nested: each closing line ends the innermost open
\* block and is of its kind, and no block is left open.
RECURSIVE WellNested(_, _)
WellNested(lines, open) ==
    IF lines = <<>> THEN open = <<>>
    ELSE LET l == Head(lines)
         IN CASE l.cls = "open" -> WellNested(Tail(lines), Append(open, l.tag))
              [] l.cls = "close" ->
                    /\ open # <<>>
                    /\ open[Len(open)] = l.tag
                    /\ WellNested(Tail(lines), SubSeq(open, 1, Len(open) - 1))
              [] OTHER -> WellNested(Tail(lines), open)

\* The number of blocks open after each line.
RECURSIVE Depths(_, _)
Depths(lines, d) ==
    IF lines = <<>> THEN <<>>
    ELSE LET l == Head(lines)
             e == CASE l.cls = "open" -> d + 1
                    [] l.cls = "close" -> d - 1
                    [] OTHER -> d
         IN <<e>> \o Depths(Tail(lines), e)

\* The line that closes the block opened at line p (0: none does).
ClosePos(depth, p) ==
    LET C == {q \in DOMAIN out :
                 /\ q > p
                 /\ out[q].cls = "close"
                 /\ depth[q] = depth[p] - 1}
    IN IF C = {} THEN 0 ELSE CHOOSE q \in C : \A r \in C : q <= r

ClusterOpens(g) == {p \in DOMAIN out : out[p].txt = "cluster" /\ out[p].a = g}
OpenPos(g) == CHOOSE p \in ClusterOpens(g) : TRUE

RECURSIVE IsAncestor(_, _, _)
IsAncestor(G, h, g) ==
    IF g = 0 THEN FALSE
    ELSE ParentOf(G, g) = h \/ IsAncestor(G, h, ParentOf(G, g))

\* C8: the DOT output of a grouped graph holds exactly one
\* `subgraph cluster_<id>` block per Group, each closed by a `}` of its own, and
\* the block of a Group lies inside the block of another Group exactly when that
\* Group is above it in the hierarchy.
C8_DotClusters ==
    (writer = "dot" /\ pc = "done") =>
        LET depth == Depths(out, 0)
            close(g) == ClosePos(depth, OpenPos(g))
        IN /\ WellNested(out, <<>>)
           /\ \A g \in Groups(graph) :
                 /\ Cardinality(ClusterOpens(g)) = 1
                 /\ close(g) # 0
                 /\ out[close(g)].txt = "}"
           /\ \A g, h \in Groups(graph) : g # h => close(g) # close(h)
           /\ \A g, h \in Groups(graph) :
                 (OpenPos(h) < OpenPos(g) /\ close(g) < close(h)) <=> IsAncestor(graph, h, g)

\* A DOT run is over on a Group inside a Group, beside a third Group.
C8_Witness ==
    /\ writer = "dot"
    /\ pc = "done"
    /\ \E g, h, k \in Groups(graph) :
          /\ ParentOf(graph, g) = h
          /\ ParentOf(graph, h) = 0
          /\ ParentOf(graph, k) = 0
          /\ k # h
          /\ graph[g].nodes # <<>>

(***************************************************************************)
(* Properties of filter and of the pipeline.                                *)
(***************************************************************************)
\* A step of Writer.run can be taken.
CanRun ==
    \/ pc \in {"run", "start_graph", "write_edges", "finish_graph", "close"}
    \/ CanWriteSubgraph
    \/ CanWriteNode
    \/ CanFinishSubgraph
    \/ CanWriteEdge
    \/ CanFinishEdges

Assembled == pc \notin {"analyzed", "filtered", "refiltered"}

\* u and v are the two ends of a defines or uses edge.
Linked(u, v) ==
    \E e \in reg_edges : (e.source = u /\ e.target = v) \/ (e.source = v /\ e.target = u)

\* A path of at most k edges, each walked in either direction, leads from x to n.
RECURSIVE Path(_, _, _)
Path(k, x, n) ==
    \/ x = n
    \/ k > 0 /\ \E m \in RegNodes : Linked(x, m) /\ Path(k - 1, m, n)

Connected(x, n) == Path(Cardinality(RegNodes) - 1, x, n)

\* C4: an edge is visible only if both its endpoints are, so every edge handed
\* to a Writer has its source and target in the node section, and
\* TgfWriter.write_edge never looks up a node without an id.
C4_EdgesHaveIds ==
    /\ \A e \in VisibleEdges : e.source \in visible /\ e.target \in visible
    /\ Assembled =>
          \A k \in DOMAIN graph[0].edges :
              /\ graph[0].edges[k] \in VisibleEdges
              /\ graph[0].edges[k].source \in AllNodes(graph)
              /\ graph[0].edges[k].target \in AllNodes(graph)
    /\ (writer = "tgf" /\ NodesWritten) =>
          \A k \in DOMAIN graph[0].edges :
              /\ graph[0].edges[k].source \in DOMAIN id_map
              /\ graph[0].edges[k].target \in DOMAIN id_map
              /\ \E j \in DOMAIN NodeLines : NodeLines[j].b = graph[0].edges[k].source
              /\ \E j \in DOMAIN NodeLines : NodeLines[j].b = graph[0].edges[k].target
    /\ error # "KeyError"

\* After a filter call that hid a Node and an Edge, a TGF run on the grouped
\* graph has written an edge between two Nodes of different Groups.
C4_Witness ==
    /\ last_filter.given
    /\ visible # RegNodes
    /\ VisibleEdges # reg_edges
    /\ writer = "tgf"
    /\ pc = "done"
    /\ Groups(graph) # {}
    /\ \E k \in DOMAIN EdgeLines : EdgeLines[k].a # EdgeLines[k].b

\* C5: filter(node=X) without a namespace makes visible exactly the Nodes that
\* a path of defines/uses edges, walked in either direction, connects to X.
C5_FilterNode ==
    (last_filter.given /\ last_filter.has_node /\ ~ last_filter.has_namespace) =>
        visible = {n \in RegNodes : Connected(last_filter.node, n)}

\* filter(node=X) kept X and a Node that only an edge into X connects to it,
\* and hid the third Node.
C5_Witness ==
    /\ last_filter.given /\ last_filter.has_node /\ ~ last_filter.has_namespace
    /\ Cardinality(visible) = 2
    /\ \E n \in visible :
          /\ n # last_filter.node
          /\ \E e \in reg_edges : e.source = n /\ e.target = last_filter.node
          /\ ~ \E e \in reg_edges : e.source = last_filter.node

\* The visible set of filter(a) on the full analyzed graph.
VisibleAlone(a) ==
    {n \in RegNodes :
        /\ a.has_node => Connected(a.node, n)
        /\ a.has_namespace => IsPrefix(a.namespace, NodeNamespace(n))}

\* C6: after any sequence of filter calls the visible set is that of the last
\* call made alone on the full analyzed graph, and filter adds or deletes no
\* record.
C6_FilterAlone ==
    /\ [](last_filter.given => visible = VisibleAlone(last_filter))
    /\ [][reg_edges' = reg_edges]_vars

\* A filter call made after another one left two of the three Nodes visible.
C6_Witness ==
    /\ pc = "refiltered"
    /\ last_filter.has_node
    /\ Cardinality(visible) = 2
    /\ reg_edges # {}

\* The arguments of the call match no Node.
MatchesNothing(a) ==
    \/ a.has_node /\ a.node \notin RegNodes
    \/ a.has_namespace /\ \A n \in RegNodes : ~ IsPrefix(a.namespace, NodeNamespace(n))

IsEmpty(G) ==
    /\ DOMAIN G = {0}
    /\ G[0].nodes = <<>>
    /\ G[0].subgraphs = <<>>
    /\ G[0].edges = <<>>

\* C7: a filter call whose Node or namespace matches nothing leaves no Node
\* visible and raises nothing; the presentation graph is then empty, and the run
\* of any Writer on an empty graph goes on to its end without an error and
\* leaves every block it opened closed.
C7_EmptyGraph ==
    /\ (last_filter.given /\ MatchesNothing(last_filter)) => (visible = {} /\ error = "")
    /\ (Assembled /\ visible = {}) => IsEmpty(graph)
    /\ (Assembled /\ pc # "writer" /\ IsEmpty(graph)) =>
          /\ error = ""
          /\ pc # "raised"
          /\ pc # "done" => CanRun
          /\ pc = "done" => (out # <<>> /\ WellNested(out, <<>>))

\* The filter matched nothing and the yEd run on the empty graph is over.
C7_Witness ==
    /\ last_filter.given
    /\ MatchesNothing(last_filter)
    /\ IsEmpty(graph)
    /\ writer = "yed"
    /\ pc = "done"

(***************************************************************************)
(* Properties of main.                                                      *)
(***************************************************************************)
OptionsHanded == pc \in {"filter", "from_visitor", "write_graph", "written", "raised"}

\* C9: whatever the flags, the options handed to the VisualGraph assembler have
\* grouped set when nested_groups is set.
C9_NestedImpliesGrouped ==
    OptionsHanded => (graph_options.nested_groups => graph_options.grouped)

\* The command line had --nested-groups without --grouped and the graph is about
\* to be assembled.
C9_Witness ==
    /\ pc = "from_visitor"
    /\ cli_args.opts.nested_groups
    /\ ~ cli_args.opts.grouped
    /\ graph_options.nested_groups

\* The writer the format names.
WriterOf(fmt) ==
    CASE fmt = "dot" -> "DotWriter"
      [] fmt = "html" -> "HTMLWriter"
      [] fmt = "tgf" -> "TgfWriter"
      [] fmt = "yed" -> "YedWriter"
      [] OTHER -> "DotConverter"

\* C10: _write_graph runs the writer of the requested format, and a format
\* outside ALLOWED_FORMATS and DOT_FORMATS raises ValueError, no writer running.
C10_WriterOfFormat ==
    /\ pc = "written" => ran = WriterOf(args.format)
    /\ pc = "raised" => (error = "ValueError" /\ ran = "")
    /\ (pc \in {"written", "raised"} /\ UnknownFormat(args)) => pc = "raised"

(***************************************************************************)
(* Properties of DotAdapter.                                                *)
(***************************************************************************)
\* What the destination the caller supplied holds: the texts written to
\* standard output, to the StringIO, or to the file at the path.
Delivered ==
    CASE converted_output.kind = "None" -> stdout
      [] converted_output.kind = "StringIO" -> stringio
      [] OTHER -> IF \E f \in files : f.path = converted_output.path
                  THEN <<(CHOOSE f \in files : f.path = converted_output.path).text>>
                  ELSE <<>>

\* C11: when an SVGWriter or HTMLWriter has closed, the destination supplied
\* as output (standard output for None, the StringIO, the file at the path)
\* holds the converted text, close raised nothing, and the DOT text was never
\* written to that destination.
C11_ConvertedDelivered ==
    (adapter # "" /\ pc \in {"done", "raised"}) =>
        /\ error = ""
        /\ \E ok \in BOOLEAN : Delivered = <<convert(adapter, out, ok)>>
        /\ \A k \in DOMAIN Delivered : Delivered[k].fmt # "dot"

(***************************************************************************)
(* Properties of indent_level.                                              *)
(***************************************************************************)
\* C12: for a TgfWriter, DotWriter or YedWriter on any presentation graph,
\* indent_level is negative at no write of the run, and it is back at 0 when
\* run has finished, every indent undone by a dedent.
C12_IndentBalanced ==
    /\ \A p \in DOMAIN out : out[p].ind >= 0
    /\ pc = "done" => indent_level = 0
====
